---- MODULE Spec2Model ----
(***************************************************************************)
(* Model of the sk-sb-quiz session engine (the <script> block and the      *)
(* event bindings of the quiz page component).                             *)
(*                                                                         *)
(* JavaScript arrays are 0-based, TLA+ sequences 1-based: currentIndex     *)
(* and every index handed to a helper keep the source's 0-based value,     *)
(* and element k of an array a is a[k + 1].                                *)
(*                                                                         *)
(* A Question object of allQuestions is identified by its __index (field   *)
(* index below): onMount builds one fresh object per loaded record, and    *)
(* sessionQuestions holds references to those objects, so reference        *)
(* equality of two queue entries is equality of their index.               *)
(***************************************************************************)
EXTENDS Integers, Sequences, FiniteSets, TLC

VARIABLES
    loading,            \* let loading
    error,              \* let error ("null" when no error)
    allQuestions,       \* let allQuestions
    domains,            \* let domains (the sorted array, as the set of its elements)
    selectedDomains,    \* let selectedDomains
    minQuestions,       \* let minQuestions
    sessionQuestions,   \* let sessionQuestions (sequence of __index references)
    sessionStarted,     \* let sessionStarted
    currentIndex,       \* let currentIndex (0-based)
    currentOptions,     \* let currentOptions
    status,             \* let status
    statusMessage,      \* let statusMessage
    autoAdvanceTimeout, \* let autoAdvanceTimeout (0 models null)
    pendingTimers,      \* the timers window.setTimeout has scheduled and not yet run or cleared
    destroyed,          \* the component has been torn down (onDestroy ran)
    lastOp,             \* history: the handler that last changed the session or the timer
                        \*          ("startSessionFallback": startSession, selection empty)
    startLen,           \* history: length of sessionQuestions when the session started
    views,              \* history: questions shown (prepared) in this session
    misses,             \* history: incorrect answers accepted in this session
    missed,             \* history: records answered incorrectly in this session and not
                        \*          answered correctly since
    skipped             \* history: some view of this session was left while status was idle

vars == << loading, error, allQuestions, domains, selectedDomains, minQuestions,
           sessionQuestions, sessionStarted, currentIndex, currentOptions, status,
           statusMessage, autoAdvanceTimeout, pendingTimers, destroyed,
           lastOp, startLen, views, misses, missed, skipped >>

-----------------------------------------------------------------------------
(* Bounds *)

\* sessionQuestions grows without bound on repeated misses; answers that
\* would grow it past MaxQueue are not taken.
MaxQueue == 4

\* Largest number of records besides the question under test in the stores
\* the option-builder specification draws.
MaxOthers == 2

-----------------------------------------------------------------------------
(* Values *)

\* error === null
NoError == "null"
\* err.message of a failed fetch / parse
LoadError == "Failed to load questions."
\* the message startSession sets
NoCandidatesError == "No questions found for the selected domains."

\* autoAdvanceTimeout === null
NoTimer == 0

\* A JSON value that is not a string (typeof t !== "string"): a missing
\* correctAnswer, a number, null.
NonString == "<non-string>"

IsString(t) == t # NonString

\* One record of Quiz.json.  domain "" models a missing or empty domain,
\* hasDummyAnswers = FALSE a record whose dummyAnswers is not an array.
Rec(d, c, has, dummy) ==
    [domain |-> d, correctAnswer |-> c, hasDummyAnswers |-> has, dummyAnswers |-> dummy]

\* q.domain || "General"
DomainOf(q) == IF q.domain = "" THEN "General" ELSE q.domain

Max(a, b) == IF a > b THEN a ELSE b
Min(a, b) == IF a < b THEN a ELSE b

\* Array.prototype.slice(start, end) for integer arguments.
Slice(a, start, end) ==
    LET n == Len(a)
        s == IF start < 0 THEN Max(n + start, 0) ELSE Min(start, n)
        e == IF end < 0 THEN Max(n + end, 0) ELSE Min(end, n)
    IN  IF e <= s THEN << >> ELSE SubSeq(a, s + 1, e)

\* Array.prototype.includes
Includes(a, x) == \E k \in 1..Len(a) : a[k] = x

-----------------------------------------------------------------------------
(* shuffleArray *)

\* The values Math.floor(Math.random() * (i + 1)) can take for each i of the
\* loop over an array of length n: rnd[i] \in 0..i for i = n-1 down to 1.
RandomChoices(n) ==
    { rnd \in [1..(n - 1) -> 0..(n - 1)] : \A i \in 1..(n - 1) : rnd[i] <= i }

\* Mutant of Swap: a[i] = a[j], the element at i is lost.
Swap_Overwrite(a, i, j) ==
    [k \in 1..Len(a) |-> IF k = i + 1 THEN a[j + 1] ELSE a[k]]

\* [a[i], a[j]] = [a[j], a[i]]
Swap(a, i, j) ==
    [k \in 1..Len(a) |-> IF k = i + 1 THEN a[j + 1]
                         ELSE IF k = j + 1 THEN a[i + 1]
                         ELSE a[k]]

RECURSIVE ShuffleLoop(_, _, _)
ShuffleLoop(a, i, rnd) ==
    IF i > 0 THEN ShuffleLoop(Swap(a, i, rnd[i]), i - 1, rnd) ELSE a

\* shuffleArray(arr) with the random indices rnd; works on the copy [...arr].
shuffleArray(arr, rnd) == ShuffleLoop(arr, Len(arr) - 1, rnd)

-----------------------------------------------------------------------------
(* Option builder *)

\* getGlobalDistractorPool(excludeIndex) over the store all.
getGlobalDistractorPool(all, excludeIndex) ==
    LET keep(q) == q.index # excludeIndex /\ IsString(q.correctAnswer)
        kept == SelectSeq(all, keep)
    IN  [k \in 1..Len(kept) |-> kept[k].correctAnswer]

\* perQ.forEach: push every string of dummyAnswers not yet seen.
RECURSIVE PushDummies(_, _, _)
PushDummies(options, perQ, k) ==
    IF k > Len(perQ) THEN options
    ELSE LET t == perQ[k]
             seen == { options[n].text : n \in 1..Len(options) }
         IN  IF IsString(t) /\ t \notin seen
             THEN PushDummies(Append(options, [text |-> t, correct |-> FALSE]), perQ, k + 1)
             ELSE PushDummies(options, perQ, k + 1)

\* Mutant of PushPool: the pushed distractors are flagged correct.
RECURSIVE PushPool_FlaggedCorrect(_, _, _, _)
PushPool_FlaggedCorrect(options, pool, needed, i) ==
    IF i < needed /\ i < Len(pool)
    THEN PushPool_FlaggedCorrect(Append(options, [text |-> pool[i + 1], correct |-> TRUE]),
                                 pool, needed, i + 1)
    ELSE options

\* for (let i = 0; i < needed && i < pool.length; i++) options.push(pool[i])
RECURSIVE PushPool(_, _, _, _)
PushPool(options, pool, needed, i) ==
    IF i < needed /\ i < Len(pool)
    THEN PushPool(Append(options, [text |-> pool[i + 1], correct |-> FALSE]),
                  pool, needed, i + 1)
    ELSE options

\* The options before the pool is consulted: the correct answer, then the
\* per-question dummy answers.
OwnOptions(q) ==
    LET perQ == IF q.hasDummyAnswers THEN q.dummyAnswers ELSE << >>
    IN  PushDummies(<< [text |-> q.correctAnswer, correct |-> TRUE] >>, perQ, 1)

desiredOptionCount == 4

\* getGlobalDistractorPool(q.__index).filter((t) => !seen.has(t))
UnseenPool(q, all) ==
    LET own == OwnOptions(q)
        seen == { own[n].text : n \in 1..Len(own) }
        unseen(t) == t \notin seen
    IN  SelectSeq(getGlobalDistractorPool(all, q.index), unseen)

\* The options list before the final shuffle: own topped up from the
\* shuffled pool.
ToppedUp(own, pool) ==
    LET needed == Max(0, desiredOptionCount - Len(own))
    IN  IF needed > 0 THEN PushPool(own, pool, needed, 0) ELSE own

\* Every order shuffleArray can give arr.
Shuffles(arr) == { shuffleArray(arr, rnd) : rnd \in RandomChoices(Len(arr)) }

\* Every list buildOptionsForQuestion(q) can return over the store all.
buildOptionsForQuestion(q, all) ==
    LET own == OwnOptions(q)
        needed == Max(0, desiredOptionCount - Len(own))
        pools == IF needed > 0 THEN Shuffles(UnseenPool(q, all)) ELSE { << >> }
    IN  UNION { Shuffles(ToppedUp(own, pool)) : pool \in pools }

-----------------------------------------------------------------------------
(* Question stores the session specification loads *)

\* Three records with distinct answers and no dummy answers, two domains
\* (the third record has no domain and falls under "General").
StoreThree ==
    << Rec("net", "a", FALSE, << >>),
       Rec("net", "b", FALSE, << >>),
       Rec("", "c", FALSE, << >>) >>

\* Two records of one domain with the same correct answer; the first has
\* dummy answers that repeat each other and the correct answer.
StoreTwo ==
    << Rec("sql", "a", TRUE, << "b", "a", "b" >>),
       Rec("sql", "a", FALSE, << >>) >>

\* An empty Quiz.json: []
StoreEmpty == << >>

Stores == { StoreThree, StoreTwo, StoreEmpty }

\* The values typed into the "minQuestions" number input.
MinQuestionsInputs == { -1, 0, 2, 3 }

\* data.map((q, idx) => ({ ...q, __index: idx }))
AttachIndex(data) ==
    [k \in 1..Len(data) |->
        [domain |-> data[k].domain, correctAnswer |-> data[k].correctAnswer,
         hasDummyAnswers |-> data[k].hasDummyAnswers,
         dummyAnswers |-> data[k].dummyAnswers, index |-> k - 1]]

\* The domains collected from a store.
CollectDomains(all) == { DomainOf(all[k]) : k \in 1..Len(all) }

-----------------------------------------------------------------------------
(* Auto-advance timer *)

\* Mutant of clearAutoAdvanceTimer: the handle is forgotten, clearTimeout is
\* not called.
clearAutoAdvanceTimer_HandleOnly(timeout, pending) ==
    [timeout |-> NoTimer, pending |-> pending]

\* clearAutoAdvanceTimer(): the handle and the scheduled timers afterwards.
clearAutoAdvanceTimer(timeout, pending) ==
    IF timeout # NoTimer
    THEN [timeout |-> NoTimer, pending |-> pending \ {timeout}]
    ELSE [timeout |-> timeout, pending |-> pending]

\* The id window.setTimeout returns: one that no scheduled timer has.
FreshTimerId(pending) ==
    CHOOSE id \in 1..(Cardinality(pending) + 1) :
        /\ id \notin pending
        /\ \A other \in 1..(id - 1) : other \in pending

\* Mutant of scheduleAutoAdvance: the old timer is cleared, no new one is set.
scheduleAutoAdvance_NotArmed(timeout, pending) ==
    clearAutoAdvanceTimer(timeout, pending)

\* scheduleAutoAdvance(): the handle and the scheduled timers afterwards.
scheduleAutoAdvance(timeout, pending) ==
    LET cleared == clearAutoAdvanceTimer(timeout, pending)
        id == FreshTimerId(cleared.pending)
    IN  [timeout |-> id, pending |-> cleared.pending \cup {id}]

-----------------------------------------------------------------------------
(* Rendering conditions of the template *)

\* The {:else} branch of {#if loading} ... {:else if error}: the setup card
\* (domain checkboxes, minQuestions input, start button) is on screen.
SetupRendered == ~loading /\ error = NoError /\ ~destroyed

\* Mutant of QuestionRendered: the question card stays on screen when
\* sessionStarted is false.
QuestionRendered_WithoutSession ==
    /\ SetupRendered
    /\ currentIndex < Len(sessionQuestions)

\* {#if sessionStarted && currentQuestion}: the question card (option
\* buttons, next button) is on screen.
QuestionRendered ==
    /\ SetupRendered
    /\ sessionStarted
    /\ currentIndex < Len(sessionQuestions)

-----------------------------------------------------------------------------
(* Initial state: the component's declarations, before onMount's fetch
   settles *)

Init ==
    /\ loading = TRUE
    /\ error = NoError
    /\ allQuestions = << >>
    /\ domains = {}
    /\ selectedDomains = {}
    /\ minQuestions = 10
    /\ sessionQuestions = << >>
    /\ sessionStarted = FALSE
    /\ currentIndex = 0
    /\ currentOptions = << >>
    /\ status = "idle"
    /\ statusMessage = ""
    /\ autoAdvanceTimeout = NoTimer
    /\ pendingTimers = {}
    /\ destroyed = FALSE
    /\ lastOp = "mount"
    /\ startLen = 0
    /\ views = 0
    /\ misses = 0
    /\ missed = {}
    /\ skipped = FALSE

sessionVars == << sessionQuestions, sessionStarted, currentIndex, currentOptions,
                  status, statusMessage >>
timerVars == << autoAdvanceTimeout, pendingTimers >>
storeVars == << allQuestions, domains >>
historyVars == << startLen, views, misses, missed, skipped >>

-----------------------------------------------------------------------------
(* onMount / onDestroy *)

\* onMount, fetch and parse succeed with the array data.
LoadOk ==
    /\ loading /\ ~destroyed
    /\ \E data \in Stores :
        /\ allQuestions' = AttachIndex(data)
        /\ domains' = CollectDomains(AttachIndex(data))
        /\ selectedDomains' = CollectDomains(AttachIndex(data))
    /\ loading' = FALSE
    /\ UNCHANGED << error, minQuestions, sessionVars, timerVars, destroyed, lastOp,
                    historyVars >>

\* Mutant of LoadFail: the failure comes after allQuestions was assigned.
LoadFail_StoreAssigned ==
    /\ loading /\ ~destroyed
    /\ \E data \in Stores : allQuestions' = AttachIndex(data)
    /\ error' = LoadError
    /\ loading' = FALSE
    /\ UNCHANGED << domains, selectedDomains, minQuestions, sessionVars, timerVars,
                    destroyed, lastOp, historyVars >>

\* onMount, res.ok is false or res.json() rejects.
LoadFail ==
    /\ loading /\ ~destroyed
    /\ error' = LoadError
    /\ loading' = FALSE
    /\ UNCHANGED << storeVars, selectedDomains, minQuestions, sessionVars, timerVars,
                    destroyed, lastOp, historyVars >>

\* onDestroy
Destroy ==
    /\ ~destroyed
    /\ destroyed' = TRUE
    /\ IF autoAdvanceTimeout # NoTimer
       THEN /\ pendingTimers' = pendingTimers \ {autoAdvanceTimeout}
            /\ autoAdvanceTimeout' = NoTimer
       ELSE UNCHANGED timerVars
    /\ UNCHANGED << loading, error, storeVars, selectedDomains, minQuestions,
                    sessionVars, lastOp, historyVars >>

-----------------------------------------------------------------------------
(* Session setup *)

\* toggleDomain(domain), from the checkbox of one of the listed domains.
toggleDomain ==
    /\ SetupRendered
    /\ \E domain \in domains :
        selectedDomains' = IF domain \in selectedDomains
                           THEN selectedDomains \ {domain}
                           ELSE selectedDomains \cup {domain}
    /\ UNCHANGED << loading, error, storeVars, minQuestions, sessionVars, timerVars,
                    destroyed, lastOp, historyVars >>

\* bind:value={minQuestions}
SetMinQuestions ==
    /\ SetupRendered
    /\ \E n \in MinQuestionsInputs : minQuestions' = n
    /\ UNCHANGED << loading, error, storeVars, selectedDomains, sessionVars, timerVars,
                    destroyed, lastOp, historyVars >>

\* Mutant of prepareCurrentQuestion: the options are rebuilt, status and
\* statusMessage are left as they were.
prepareCurrentQuestion_KeepsStatus(queue, idx) ==
    IF idx < Len(queue)
    THEN /\ currentOptions' \in
                buildOptionsForQuestion(allQuestions[queue[idx + 1] + 1], allQuestions)
         /\ UNCHANGED << status, statusMessage >>
         /\ views' = IF idx = 0 THEN 1 ELSE views + 1
    ELSE /\ UNCHANGED << currentOptions, status, statusMessage >>
         /\ views' = IF idx = 0 THEN 0 ELSE views

\* prepareCurrentQuestion() for the queue and index the caller has just set.
\* With no question at the index, buildOptionsForQuestion(undefined) throws
\* a TypeError before anything is assigned.
prepareCurrentQuestion(queue, idx) ==
    IF idx < Len(queue)
    THEN /\ currentOptions' \in
                buildOptionsForQuestion(allQuestions[queue[idx + 1] + 1], allQuestions)
         /\ status' = "idle"
         /\ statusMessage' = ""
         /\ views' = IF idx = 0 THEN 1 ELSE views + 1
    ELSE /\ UNCHANGED << currentOptions, status, statusMessage >>
         /\ views' = IF idx = 0 THEN 0 ELSE views

\* Mutant of ActiveDomains: no fallback for an empty selection.
ActiveDomains_NoFallback(selected) == selected

\* let activeDomains = Array.from(selectedDomains); if empty, domains
ActiveDomains(selected) == IF selected = {} THEN domains ELSE selected

\* allQuestions.filter((q) => activeDomains.includes(q.domain || "General")),
\* as the sequence of the records' __index
Candidates(active) ==
    LET matches(q) == DomainOf(q) \in active
        kept == SelectSeq(allQuestions, matches)
    IN  [k \in 1..Len(kept) |-> kept[k].index]

\* if (candidates.length > minQuestions) candidates = candidates.slice(0, minQuestions)
Trim(candidates, limit) ==
    IF Len(candidates) > limit THEN Slice(candidates, 0, limit) ELSE candidates

\* The queue startSession builds for the selection selected and the limit
\* minQuestions: the candidates, shuffled with the random indices rnd, then
\* trimmed.
SessionQueue(selected, limit, rnd) ==
    Trim(shuffleArray(Candidates(ActiveDomains(selected)), rnd), limit)

\* startSession()
startSession ==
    /\ SetupRendered
    /\ UNCHANGED << loading, storeVars, minQuestions, destroyed >>
    /\ IF Len(allQuestions) = 0
       THEN UNCHANGED << error, selectedDomains, sessionVars, timerVars, lastOp,
                         historyVars >>
       ELSE LET cleared == clearAutoAdvanceTimer(autoAdvanceTimeout, pendingTimers)
                active == ActiveDomains(selectedDomains)
                candidates == Candidates(active)
            IN  /\ autoAdvanceTimeout' = cleared.timeout
                /\ pendingTimers' = cleared.pending
                /\ selectedDomains' = active
                /\ lastOp' = IF selectedDomains = {} THEN "startSessionFallback"
                             ELSE "startSession"
                /\ IF Len(candidates) = 0
                   THEN /\ error' = NoCandidatesError
                        /\ UNCHANGED << sessionVars, historyVars >>
                   ELSE /\ UNCHANGED error
                        /\ \E rnd \in RandomChoices(Len(candidates)) :
                            LET queue == SessionQueue(selectedDomains, minQuestions, rnd)
                            IN  /\ sessionQuestions' = queue
                                /\ currentIndex' = 0
                                /\ sessionStarted' = TRUE
                                /\ prepareCurrentQuestion(queue, 0)
                                /\ startLen' = Len(queue)
                                /\ misses' = 0
                                /\ missed' = {}
                                /\ skipped' = FALSE

-----------------------------------------------------------------------------
(* Answering and advancing *)

\* Mutant of Requeue: the copy is looked for from the cursor on, which
\* always finds the current entry, so nothing is appended.
Requeue_WholeQueue(queue, idx) ==
    LET currentQuestionRef == queue[idx + 1]
        remaining == Slice(queue, idx, Len(queue))
        alreadyQueued == Includes(remaining, currentQuestionRef)
    IN  IF ~alreadyQueued THEN Append(queue, currentQuestionRef) ELSE queue

\* Mutant of Requeue: the reference is appended without looking for a copy
\* ahead, and once more by the guarded append.
Requeue_Twice(queue, idx) ==
    LET currentQuestionRef == queue[idx + 1]
        pushed == Append(queue, currentQuestionRef)
        remaining == Slice(queue, idx + 1, Len(queue))
        alreadyQueued == Includes(remaining, currentQuestionRef)
    IN  IF ~alreadyQueued THEN Append(pushed, currentQuestionRef) ELSE pushed

\* Mutant of Requeue: the copy is looked for in the whole queue but the
\* current index, so a question that came back once is not appended again.
Requeue_OnceOnly(queue, idx) ==
    LET currentQuestionRef == queue[idx + 1]
        alreadyQueued == \E k \in 1..Len(queue) :
                            k # idx + 1 /\ queue[k] = currentQuestionRef
    IN  IF ~alreadyQueued THEN Append(queue, currentQuestionRef) ELSE queue

\* Mutant of Requeue: the reference is inserted right after the current
\* index instead of pushed at the end.
Requeue_InsertNext(queue, idx) ==
    LET currentQuestionRef == queue[idx + 1]
        remaining == Slice(queue, idx + 1, Len(queue))
        alreadyQueued == Includes(remaining, currentQuestionRef)
    IN  IF ~alreadyQueued
        THEN Slice(queue, 0, idx + 1) \o << currentQuestionRef >> \o remaining
        ELSE queue

\* The re-queue of handleAnswerClick's incorrect branch.
Requeue(queue, idx) ==
    LET currentQuestionRef == queue[idx + 1]
        remaining == Slice(queue, idx + 1, Len(queue))
        alreadyQueued == Includes(remaining, currentQuestionRef)
    IN  IF ~alreadyQueued THEN Append(queue, currentQuestionRef) ELSE queue

\* Mutant of AnswerIgnored: the status guard is missing.
AnswerIgnored_Never(st) == FALSE

\* if (status !== "idle") return;
AnswerIgnored(st) == st # "idle"

\* handleAnswerClick(opt), from the button of one of currentOptions.
handleAnswerClick ==
    /\ QuestionRendered
    /\ UNCHANGED << loading, error, storeVars, selectedDomains, minQuestions,
                    destroyed, sessionStarted, currentIndex, currentOptions,
                    startLen, views, skipped >>
    /\ \E n \in 1..Len(currentOptions) :
        LET option == currentOptions[n]
            cleared == clearAutoAdvanceTimer(autoAdvanceTimeout, pendingTimers)
        IN  IF AnswerIgnored(status)
            THEN UNCHANGED << sessionQuestions, status, statusMessage, timerVars,
                              lastOp, misses, missed >>
            ELSE IF option.correct
            THEN LET armed == scheduleAutoAdvance(cleared.timeout, cleared.pending)
                 IN  /\ status' = "correct"
                     /\ statusMessage' = "Correct!"
                     /\ autoAdvanceTimeout' = armed.timeout
                     /\ pendingTimers' = armed.pending
                     /\ lastOp' = "handleAnswerClick"
                     /\ missed' = missed \ {sessionQuestions[currentIndex + 1]}
                     /\ UNCHANGED << sessionQuestions, misses >>
            ELSE /\ status' = "incorrect"
                 /\ statusMessage' = "Incorrect."
                 /\ sessionQuestions' = Requeue(sessionQuestions, currentIndex)
                 /\ Len(sessionQuestions') <= MaxQueue
                 /\ autoAdvanceTimeout' = cleared.timeout
                 /\ pendingTimers' = cleared.pending
                 /\ lastOp' = "handleAnswerClick"
                 /\ missed' = missed \cup {sessionQuestions[currentIndex + 1]}
                 /\ misses' = misses + 1

\* nextQuestion(auto), run with the timers pending still scheduled; by is
\* the caller ("nextQuestion" for the button, "timer" for the timer).
nextQuestion(pending, by) ==
    /\ UNCHANGED << loading, error, storeVars, selectedDomains, minQuestions,
                    destroyed, sessionQuestions, startLen, misses, missed >>
    /\ IF ~sessionStarted
       THEN /\ pendingTimers' = pending
            /\ UNCHANGED << autoAdvanceTimeout, sessionStarted, currentIndex,
                            currentOptions, status, statusMessage, lastOp,
                            views, skipped >>
       ELSE LET cleared == clearAutoAdvanceTimer(autoAdvanceTimeout, pending)
            IN  /\ autoAdvanceTimeout' = cleared.timeout
                /\ pendingTimers' = cleared.pending
                /\ lastOp' = by
                /\ skipped' = (skipped \/ status = "idle")
                /\ IF currentIndex < Len(sessionQuestions) - 1
                   THEN /\ currentIndex' = currentIndex + 1
                        /\ prepareCurrentQuestion(sessionQuestions, currentIndex + 1)
                        /\ UNCHANGED sessionStarted
                   ELSE /\ status' = "idle"
                        /\ statusMessage' = ""
                        /\ sessionStarted' = FALSE
                        /\ UNCHANGED << currentIndex, currentOptions, views >>

\* on:click={() => nextQuestion(false)}
NextClick ==
    /\ QuestionRendered
    /\ nextQuestion(pendingTimers, "nextQuestion")

\* A scheduled timer runs its callback, nextQuestion(true); the browser has
\* taken it off its list before the callback starts.
TimerFire ==
    /\ \E id \in pendingTimers :
        nextQuestion(pendingTimers \ {id}, "timer")

Next ==
    \/ LoadOk
    \/ LoadFail
    \/ Destroy
    \/ toggleDomain
    \/ SetMinQuestions
    \/ startSession
    \/ handleAnswerClick
    \/ NextClick
    \/ TimerFire

Spec == Init /\ [][Next]_vars

\* The timer callback is run by the browser's event loop once its delay has
\* passed: weak fairness of TimerFire.  This is WF_vars(TimerFire) with
\* ENABLED <<TimerFire>>_vars written out as pendingTimers # {}
\* (TimerFireEnabled states that the two agree).
TimerFairness == []<>(pendingTimers = {}) \/ []<><<TimerFire>>_vars

FairSpec == Spec /\ TimerFairness

TimerFireEnabled == (ENABLED <<TimerFire>>_vars) = (pendingTimers # {})

TypeOK ==
    /\ loading \in BOOLEAN
    /\ sessionStarted \in BOOLEAN
    /\ status \in {"idle", "correct", "incorrect"}
    /\ currentIndex \in 0..MaxQueue
    /\ Len(sessionQuestions) <= MaxQueue

-----------------------------------------------------------------------------
(* The option builder on its own: buildOptionsForQuestion applied to one
   question of a store drawn from a bounded set.  The initial state is
   startSession's state on reaching its call of prepareCurrentQuestion(),
   with a one-question queue. *)

\* dummyAnswers of the question under test
OptDummyChoices ==
    { << >>, << "b", "a", "b" >>, << "b", NonString, "c" >>, << "b", "c" >>,
      << "b", "c", "d" >>, << "b", "c", "d", "e" >> }

\* The question under test.
OptTargets ==
    { Rec("", c, TRUE, d) : c \in {"a", NonString}, d \in OptDummyChoices }
    \cup { Rec("", c, FALSE, << >>) : c \in {"a", NonString} }

\* The other records of the store: no dummy answers, answers that repeat
\* each other, the target's answer and its dummy answers.
OptOthers == { Rec("", c, FALSE, << >>) : c \in {"a", "b", "x", "y", NonString} }

OptOtherSeqs == UNION { [1..n -> OptOthers] : n \in 0..MaxOthers }

\* others with target inserted after its first k records
InsertAt(others, k, target) ==
    SubSeq(others, 1, k) \o << target >> \o SubSeq(others, k + 1, Len(others))

OptInit ==
    /\ \E target \in OptTargets, others \in OptOtherSeqs :
        \E k \in 0..Len(others) :
            /\ allQuestions = AttachIndex(InsertAt(others, k, target))
            /\ sessionQuestions = << k >>
    /\ domains = CollectDomains(allQuestions)
    /\ selectedDomains = domains
    /\ loading = FALSE
    /\ error = NoError
    /\ minQuestions = 10
    /\ sessionStarted = TRUE
    /\ currentIndex = 0
    /\ currentOptions = << >>
    /\ status = "idle"
    /\ statusMessage = ""
    /\ autoAdvanceTimeout = NoTimer
    /\ pendingTimers = {}
    /\ destroyed = FALSE
    /\ lastOp = "startSession"
    /\ startLen = 1
    /\ views = 0
    /\ misses = 0
    /\ missed = {}
    /\ skipped = FALSE

\* prepareCurrentQuestion() for the question of the queue
OptPrepare ==
    /\ views = 0
    /\ prepareCurrentQuestion(sessionQuestions, currentIndex)
    /\ UNCHANGED << loading, error, storeVars, selectedDomains, minQuestions,
                    sessionQuestions, sessionStarted, currentIndex, timerVars,
                    destroyed, lastOp, startLen, misses, missed, skipped >>

OptNext == OptPrepare

OptSpec == OptInit /\ [][OptNext]_vars

-----------------------------------------------------------------------------
(* Properties *)

\* The question at the cursor, and the record it refers to.
CurrentRef == sessionQuestions[currentIndex + 1]
CurrentRecord == allQuestions[CurrentRef + 1]

\* Number of entries of queue strictly after index idx that refer to ref.
CountAhead(queue, idx, ref) ==
    Cardinality({ k \in (idx + 2)..Len(queue) : queue[k] = ref })

StartOps == { "startSession", "startSessionFallback" }

\* Every queue startSession can build for the selection selected and the
\* limit limit.
SessionQueues(selected, limit) ==
    { SessionQueue(selected, limit, rnd) :
        rnd \in RandomChoices(Len(Candidates(ActiveDomains(selected)))) }

\* The session has run to its end (nextQuestion left the last index).
Ended == ~sessionStarted /\ lastOp \in { "nextQuestion", "timer" }

\* C1: after an incorrect answer has been accepted, and for as long as the
\* view is not left (further clicks on it included), the current question's
\* reference occurs exactly once in the queue after the cursor.
C1_RequeuedExactlyOnce ==
    (sessionStarted /\ status = "incorrect" /\ lastOp = "handleAnswerClick")
        => CountAhead(sessionQuestions, currentIndex, CurrentRef) = 1

\* C1 witness: a question missed again on its re-queued appearance.
C1_Witness ==
    /\ sessionStarted /\ status = "incorrect" /\ lastOp = "handleAnswerClick"
    /\ currentIndex >= startLen
    /\ misses = 2
    /\ CountAhead(sessionQuestions, currentIndex, CurrentRef) = 1

\* What a run of the timer callback does to a started session: the next
\* index with status idle, or the end of the session from the last index.
TimerAdvances ==
    IF currentIndex < Len(sessionQuestions) - 1
    THEN sessionStarted' /\ currentIndex' = currentIndex + 1 /\ status' = "idle"
    ELSE ~sessionStarted' /\ status' = "idle"

\* C2: a correctly answered question is left: unless the user advances,
\* restarts or tears the component down first, the timer fires, and its
\* firing moves to the next index with status idle, or ends the session
\* from the last index.
C2_AutoAdvance ==
    /\ (sessionStarted /\ status = "correct" /\ lastOp = "handleAnswerClick")
          ~> (destroyed \/ lastOp \in StartOps \cup { "nextQuestion", "timer" })
    /\ [][(TimerFire /\ sessionStarted) => TimerAdvances]_vars

\* C2 witness: the timer has ended a session from its last index.
C2_Witness ==
    /\ ~sessionStarted /\ lastOp = "timer" /\ status = "idle"
    /\ currentIndex = Len(sessionQuestions) - 1
    /\ pendingTimers = {}

\* C3: the timer fires only on a correctly answered question that no manual
\* advance and no start has touched since the answer, and leaves no timer
\* scheduled: one correct answer causes at most one advance.
C3_TimerFiresOnlyAfterCorrect ==
    [][TimerFire => ( /\ sessionStarted
                      /\ status = "correct"
                      /\ lastOp = "handleAnswerClick"
                      /\ pendingTimers' = {} )]_vars

\* C3 witness: the timer has advanced to a later question, nothing is
\* scheduled any more.
C3_Witness ==
    /\ sessionStarted /\ lastOp = "timer" /\ status = "idle"
    /\ currentIndex >= 1
    /\ pendingTimers = {} /\ autoAdvanceTimeout = NoTimer

\* C4: while a session is active, 0 <= position < queue.length.
C4_PositionInRange ==
    sessionStarted => (0 <= currentIndex /\ currentIndex < Len(sessionQuestions))

\* The option builder has run (option-builder specification).
Built == views = 1

\* C5: buildOptions returns exactly one option flagged correct, and its text
\* is the question's correctAnswer.
C5_ExactlyOneCorrect ==
    Built =>
        /\ Cardinality({ n \in 1..Len(currentOptions) : currentOptions[n].correct }) = 1
        /\ \A n \in 1..Len(currentOptions) :
              currentOptions[n].correct => currentOptions[n].text = CurrentRecord.correctAnswer

\* C5 witness: options built for a question one of whose dummy answers is
\* its correct answer.
C5_Witness ==
    /\ Built
    /\ CurrentRecord.hasDummyAnswers
    /\ Includes(CurrentRecord.dummyAnswers, CurrentRecord.correctAnswer)
    /\ Len(currentOptions) = 4

\* Distinct dummyAnswers texts different from correctAnswer.
UniqueDummies(q) ==
    IF q.hasDummyAnswers
    THEN { q.dummyAnswers[k] : k \in 1..Len(q.dummyAnswers) }
            \ { NonString, q.correctAnswer }
    ELSE {}

\* Distinct correctAnswer texts of the other records that are neither the
\* question's correctAnswer nor one of its dummy answers.
UniqueDistractors(q, all) ==
    { all[k].correctAnswer : k \in { n \in 1..Len(all) : all[n].index # q.index } }
        \ ({ NonString, q.correctAnswer } \cup UniqueDummies(q))

\* C6: the number of options is min(4, 1 + distinct dummy answers other than
\* the correct answer + distinct other correct answers not among those).
C6_OptionCount ==
    Built =>
        Len(currentOptions) =
            Min(4, 1 + Cardinality(UniqueDummies(CurrentRecord))
                     + Cardinality(UniqueDistractors(CurrentRecord, allQuestions)))

\* C7: no two options returned by buildOptions have the same text.
C7_DistinctTexts ==
    Built =>
        \A m, n \in 1..Len(currentOptions) :
            currentOptions[m].text = currentOptions[n].text => m = n

C9_ViewsCount ==
    (Ended /\ ~skipped) =>
        /\ views = startLen + misses
        /\ Len(sessionQuestions) = startLen + misses

\* C9 witness: three stored questions, minQuestions 3, the first view missed
\* and re-queued at index 3, the session ended after 4 views.
C9_Witness ==
    /\ Ended /\ ~skipped
    /\ Len(allQuestions) = 3 /\ minQuestions = 3 /\ startLen = 3
    /\ misses = 1 /\ views = 4
    /\ Len(sessionQuestions) = 4
    /\ sessionQuestions[4] = sessionQuestions[1]

\* A step of startSession over a loaded store that changes the session, the
\* timer or the history.  Of the steps that leave lastOp a start, those of
\* SetMinQuestions and Destroy change minQuestions or destroyed, and those
\* of toggleDomain change nothing but selectedDomains.
StartStep ==
    /\ Len(allQuestions) > 0
    /\ lastOp' \in StartOps
    /\ minQuestions' = minQuestions
    /\ destroyed' = destroyed
    /\ << sessionVars, timerVars, lastOp, historyVars >>'
          # << sessionVars, timerVars, lastOp, historyVars >>

\* C10: startSession with an empty selection can build exactly the queues
\* it can build with every domain selected, and from either selection it
\* leaves selectedDomains equal to the full domain set.
C10_EmptySelectionIsAll ==
    [][(selectedDomains \in { {}, domains } /\ StartStep)
         => LET fromAll == SessionQueues(domains, minQuestions)
            IN  /\ SessionQueues({}, minQuestions) = fromAll
                /\ sessionQuestions' \in fromAll
                /\ selectedDomains' = domains]_vars

\* C10 witness: a session started from an empty selection over a store with
\* two domains, trimmed to two questions.
C10_Witness ==
    /\ lastOp = "startSessionFallback"
    /\ sessionStarted
    /\ Cardinality(domains) = 2
    /\ selectedDomains = domains
    /\ Len(sessionQuestions) = 2

\* The entries of a sequence are pairwise distinct.
Distinct(a) == \A m, n \in 1..Len(a) : a[m] = a[n] => m = n

\* The set of a sequence's entries.
Range(a) == { a[n] : n \in 1..Len(a) }

\* C11: right after a start that leaves a session active, the queue holds
\* pairwise distinct records, each of an active domain; it holds every
\* matching candidate when minQuestions is at least their number, and
\* otherwise exactly minQuestions records.
C11_FreshQueue ==
    [][(StartStep /\ sessionStarted' /\ error' = NoError)
         => LET active == ActiveDomains(selectedDomains)
                candidates == Candidates(active)
                queue == sessionQuestions'
            IN  /\ Distinct(queue)
                /\ \A n \in 1..Len(queue) :
                      DomainOf(allQuestions[queue[n] + 1]) \in active
                /\ IF minQuestions >= Len(candidates)
                   THEN Range(queue) = Range(candidates)
                        /\ Len(queue) = Len(candidates)
                   ELSE Len(queue) = minQuestions]_vars

\* C12: at most one auto-advance timer is scheduled, the one the handle
\* names; and clearing with no handle set changes neither the handle nor
\* the scheduled timers.
C12_SingleTimer ==
    /\ Cardinality(pendingTimers) <= 1
    /\ pendingTimers \subseteq { autoAdvanceTimeout }
    /\ autoAdvanceTimeout = NoTimer =>
          clearAutoAdvanceTimer(autoAdvanceTimeout, pendingTimers)
              = [timeout |-> autoAdvanceTimeout, pending |-> pendingTimers]

\* C12 witness: a timer scheduled at a later view, after the timers of the
\* earlier views, with nothing else scheduled.
C12_Witness ==
    /\ sessionStarted /\ status = "correct" /\ currentIndex >= 2
    /\ autoAdvanceTimeout # NoTimer
    /\ pendingTimers = { autoAdvanceTimeout }

\* C13: a click on an option of a question that has already been answered,
\* correctly or not, changes neither the queue, the index, the status, the
\* options nor the timer.
C13_AnsweredClickIsNoOp ==
    [][(status # "idle" /\ handleAnswerClick)
         => UNCHANGED << sessionQuestions, currentIndex, status, statusMessage,
                         currentOptions, timerVars >>]_vars

\* C13 witness: a missed and re-queued question still on screen with its
\* correct option, and no timer scheduled.
C13_Witness ==
    /\ QuestionRendered /\ status = "incorrect" /\ lastOp = "handleAnswerClick"
    /\ \E n \in 1..Len(currentOptions) : currentOptions[n].correct
    /\ CountAhead(sessionQuestions, currentIndex, CurrentRef) = 1
    /\ pendingTimers = {}

\* C14: startSession run on an active session with a timer scheduled
\* cancels the timer and leaves a session at index 0 with status idle whose
\* queue is one startSession builds from the stored questions, without
\* duplicates; and for as long as no answer and no advance has followed a
\* start, the index is 0 and no timer is scheduled.
C14_RestartRebuilds ==
    [][ /\ (sessionStarted /\ pendingTimers # {} /\ StartStep)
            => /\ pendingTimers' = {} /\ autoAdvanceTimeout' = NoTimer
               /\ sessionStarted'
               /\ currentIndex' = 0
               /\ status' = "idle"
               /\ sessionQuestions' \in SessionQueues(selectedDomains, minQuestions)
               /\ Distinct(sessionQuestions')
        /\ lastOp' \in StartOps => (currentIndex' = 0 /\ pendingTimers' = {}) ]_vars

\* Two sequences hold the same elements the same number of times.
SameElements(a, b) ==
    /\ Len(a) = Len(b)
    /\ \A x \in Range(a) \cup Range(b) :
          Cardinality({ k \in 1..Len(a) : a[k] = x })
              = Cardinality({ k \in 1..Len(b) : b[k] = x })

\* C15: shuffleArray returns a permutation of its input: of the distractor
\* pool whatever the random indices, and the options on screen, whichever
\* the final shuffle has returned, are a permutation of the list that went
\* into it; and the stored questions stay in load order.
C15_ShufflePermutes ==
    /\ \A k \in 1..Len(allQuestions) : allQuestions[k].index = k - 1
    /\ Built =>
          LET own == OwnOptions(CurrentRecord)
              pool == UnseenPool(CurrentRecord, allQuestions)
          IN  /\ \A rnd \in RandomChoices(Len(pool)) :
                    SameElements(shuffleArray(pool, rnd), pool)
              /\ \E shuffled \in Shuffles(pool) :
                    SameElements(currentOptions, ToppedUp(own, shuffled))

\* C15 witness: four options, two of them with the same text, shown in an
\* order other than the one they were collected in.
C15_Witness ==
    /\ Built
    /\ Len(currentOptions) = 4
    /\ ~Distinct(currentOptions)
    /\ ~currentOptions[1].correct
    /\ currentOptions
          # ToppedUp(OwnOptions(CurrentRecord), UnseenPool(CurrentRecord, allQuestions))

\* C16: once loading has failed, the error stays recorded, no question is
\* stored, no session is active, the queue is empty and no timer is
\* scheduled.
C16_LoadFailureBlocks ==
    error = LoadError =>
        /\ ~loading
        /\ allQuestions = << >>
        /\ ~sessionStarted
        /\ sessionQuestions = << >>
        /\ pendingTimers = {}

\* C16 witness: loading has failed and the component is still mounted,
\* showing the error in place of the setup controls.
C16_Witness ==
    /\ error = LoadError /\ ~loading /\ ~destroyed
    /\ ~SetupRendered
    /\ lastOp = "mount"

\* C17: the no-candidates error is never set: over a loaded store that is
\* not empty, whatever the checkboxes have made of the selection, the
\* selection holds listed domains only and startSession would find at least
\* one candidate.
C17_CandidatesNeverEmpty ==
    /\ error # NoCandidatesError
    /\ selectedDomains \subseteq domains
    /\ (~loading /\ Len(allQuestions) > 0)
          => Candidates(ActiveDomains(selectedDomains)) # << >>

\* C17 witness: a session started over a selection of some of the domains,
\* reached by unchecking the others.
C17_Witness ==
    /\ lastOp = "startSession" /\ sessionStarted /\ error = NoError
    /\ selectedDomains # {} /\ selectedDomains # domains
    /\ Len(sessionQuestions) >= 1

\* C18: nextQuestion on an active session, from the button or from the
\* timer and whatever the status, moves to the next index with status idle
\* when the index is not the last, and otherwise ends the session with
\* status and message cleared, queue and index as they were; with no
\* session active a call of nextQuestion can change nothing.
C18_Advance ==
    [][ /\ (sessionStarted /\ (NextClick \/ TimerFire))
            => /\ status' = "idle" /\ statusMessage' = ""
               /\ sessionQuestions' = sessionQuestions
               /\ IF currentIndex < Len(sessionQuestions) - 1
                  THEN sessionStarted' /\ currentIndex' = currentIndex + 1
                  ELSE ~sessionStarted' /\ currentIndex' = currentIndex
        /\ ~sessionStarted
            => ~ENABLED << nextQuestion(pendingTimers, "nextQuestion") >>_vars ]_vars

\* C18 witness: the button has advanced an active session past a view that
\* was still unanswered, to the third view.
C18_Witness ==
    /\ sessionStarted /\ lastOp = "nextQuestion" /\ skipped
    /\ currentIndex = 2 /\ views = 3
    /\ status = "idle" /\ statusMessage = ""

\* C19: after the end of a session no timer is scheduled, and no step
\* other than one that starts a session changes the queue or the index or
\* schedules a timer.
C19_EndedInert ==
    [][Ended => /\ pendingTimers = {} /\ autoAdvanceTimeout = NoTimer
                /\ ~sessionStarted'
                     => /\ sessionQuestions' = sessionQuestions
                        /\ currentIndex' = currentIndex
                        /\ pendingTimers' = {}
                        /\ autoAdvanceTimeout' = NoTimer]_vars

\* C19 witness: an ended session that had grown by a miss, its queue and
\* index still in place after the component was torn down.
C19_Witness ==
    /\ Ended /\ destroyed
    /\ Len(sessionQuestions) > startLen
    /\ currentIndex = Len(sessionQuestions) - 1
    /\ pendingTimers = {}

\* C20: an accepted incorrect answer grows the queue by at most one entry,
\* and one given on a re-queued appearance (an index past the initial
\* queue) appends the question once more.
C20_RequeuedAgain ==
    [][(status = "idle" /\ status' = "incorrect")
         => /\ Len(sessionQuestions') <= Len(sessionQuestions) + 1
            /\ currentIndex >= startLen
                 => sessionQuestions' = Append(sessionQuestions, CurrentRef)]_vars

\* C20 witness: a session started with one question, missed on every
\* appearance, whose queue has grown to the bound of the model.
C20_Witness ==
    /\ sessionStarted /\ status = "incorrect"
    /\ startLen = 1 /\ misses = MaxQueue - 1
    /\ Len(sessionQuestions) = MaxQueue
    /\ currentIndex = MaxQueue - 2
    /\ Range(sessionQuestions) = { CurrentRef }

\* C21: a step that does not start a session leaves every entry of the
\* queue at its index, adds at most one entry, at the end and referring to
\* the current question, and does not decrease the index.
C21_AppendOnly ==
    [][~StartStep
         => /\ Len(sessionQuestions') >= Len(sessionQuestions)
            /\ SubSeq(sessionQuestions', 1, Len(sessionQuestions)) = sessionQuestions
            /\ sessionQuestions' # sessionQuestions
                 => sessionQuestions' = Append(sessionQuestions, CurrentRef)
            /\ currentIndex' >= currentIndex]_vars

\* C21 witness: the first of two questions was missed; its second
\* appearance is on screen at the end of the queue, after the other question.
C21_Witness ==
    /\ sessionStarted /\ startLen = 2 /\ misses = 1
    /\ Len(sessionQuestions) = 3 /\ currentIndex = 2
    /\ sessionQuestions[3] = sessionQuestions[1]
    /\ sessionQuestions[2] # sessionQuestions[1]

\* C22: on an incorrectly answered question no timer is scheduled, and
\* the index, the status and the session stay as they are until the next
\* button or startSession acts: never by the timer.
C22_NoAutoAdvanceAfterMiss ==
    [][ /\ (sessionStarted' /\ status' = "incorrect")
            => (pendingTimers' = {} /\ autoAdvanceTimeout' = NoTimer)
        /\ ( /\ sessionStarted /\ status = "incorrect"
             /\ << currentIndex, status, sessionStarted >>'
                    # << currentIndex, status, sessionStarted >> )
            => lastOp' \in StartOps \cup { "nextQuestion" } ]_vars

\* C22 witness: the first question was answered correctly and left, the
\* second was answered incorrectly and stays on screen, nothing scheduled.
C22_Witness ==
    /\ sessionStarted /\ status = "incorrect" /\ lastOp = "handleAnswerClick"
    /\ currentIndex = 1 /\ misses = 1 /\ ~skipped
    /\ pendingTimers = {} /\ autoAdvanceTimeout = NoTimer

\* C23: while the component is mounted, a timer is scheduled exactly when
\* a session is active and the status is correct.
C23_TimerIffCorrect ==
    ~destroyed =>
        ((pendingTimers # {}) <=> (sessionStarted /\ status = "correct"))

\* C24: in an active session every record is referred to at most once
\* after the index; the current question is referred to after the index
\* exactly when the status is incorrect; and the queue has grown by one
\* entry for every incorrect answer accepted.
C24_OneCopyAhead ==
    sessionStarted =>
        /\ \A ref \in Range(sessionQuestions) :
              CountAhead(sessionQuestions, currentIndex, ref) <= 1
        /\ ( /\ currentIndex < Len(sessionQuestions)
             /\ CountAhead(sessionQuestions, currentIndex, CurrentRef) >= 1 )
              <=> (status = "incorrect")
        /\ Len(sessionQuestions) = startLen + misses

\* currentOptions are options of the question at the index: one of them is
\* flagged correct with the question's correctAnswer as text, and none of
\* those flagged incorrect has that text.
OptionsOfCurrent ==
    /\ currentIndex < Len(sessionQuestions)
    /\ \E n \in 1..Len(currentOptions) :
          /\ currentOptions[n].correct
          /\ currentOptions[n].text = CurrentRecord.correctAnswer
    /\ \A n \in 1..Len(currentOptions) :
          ~currentOptions[n].correct
              => currentOptions[n].text # CurrentRecord.correctAnswer

\* C25: in every state of an active session currentOptions are options of
\* the question at the index, and currentOptions changes only in a step
\* that changes the index or starts a session.
C25_OptionsBelong ==
    [][ /\ sessionStarted' => OptionsOfCurrent'
        /\ currentOptions' # currentOptions
            => (currentIndex' # currentIndex \/ StartStep) ]_vars

====
